---------------------------- MODULE Spec2Model ----------------------------
(***************************************************************************)
(* The size/coverage recommendation handler of megaska-tryon.              *)
(*                                                                         *)
(* The repository holds five copies of the route handler POST:             *)
(*   "P0"   src/unnamed/part_000, lines 1-159      (inch chart, lazy getSB)*)
(*   "API1" src/app/api/size/recommend/route.ts, lines 1-154               *)
(*                                   (inch chart, lazy getSB, no `size`)   *)
(*   "API2" src/app/api/size/recommend/route.ts, lines 156-311 (cm chart)  *)
(*   "APP"  src/app/size/recommend/route.ts                    (cm chart)  *)
(*   "P2"   src/unnamed/part_002                               (cm chart)  *)
(*                                                                         *)
(* Numbers.  A JavaScript value that the code treats as a number is a      *)
(* record [k, v]: k = "undef" (undefined), "num", "nan" (NaN) or "str" (a  *)
(* non-empty, non-numeric string); v is a fixed-point integer.             *)
(*   - a number of the request body is held in tenths          (x 10);     *)
(*   - a length (bust, waist, hip, height) is held x LS = 63500, the       *)
(*     least scale at which both n * 2.54 and n / 2.54 of a tenth are      *)
(*     integers, so both conversions are computed, exactly;                *)
(*   - a weight is held x WS = 10^7, at which n * 0.453592 of a tenth is   *)
(*     an integer.                                                         *)
(* Exact rational arithmetic stands for the IEEE doubles of the code.      *)
(***************************************************************************)
EXTENDS Integers, Sequences, FiniteSets, TLC

VARIABLES variant, env, payload_ok, body, pc, loc, sb, created, inserts,
          outcome, resp, peer, page, form

vars == <<variant, env, payload_ok, body, pc, loc, sb, created, inserts,
          outcome, resp, peer, page, form>>

Variants == {"P0", "API1", "API2", "APP", "P2"}
InchVariants == {"P0", "API1"}

(* ------------------------------ JS values ------------------------------ *)
Undef == [k |-> "undef", v |-> 0]
NaN == [k |-> "nan", v |-> 0]
Str == [k |-> "str", v |-> 0]
Num(x) == [k |-> "num", v |-> x]
Null == "null"
Absent == "undefined"

LS == 127 * 500
WS == 1000 * 1000 * 10

\* JS truthiness of a number-like value: 0, NaN and undefined are falsy.
Truthy(x) == (x.k = "num" /\ x.v # 0) \/ x.k = "str"
\* `x != null` / `x ?? y`
NotNullish(x) == x.k # "undef"
\* typeof x === "number" on a JSON value (JSON carries no NaN)
IsNumber(x) == x.k = "num"
\* JS truthiness of a string-typed field (Absent stands for undefined)
TruthyS(s) == s # Absent /\ s # "" /\ s # "false"

\* a body number (tenths) as a length / as a weight; a string stays a string
ToLen(x) == IF x.k = "num" THEN Num(x.v * (LS \div 10)) ELSE x
ToWt(x) == IF x.k = "num" THEN Num(x.v * (WS \div 10)) ELSE x
\* arithmetic on a non-number gives NaN (undefined and "abc" both do)
Arith(x, r) == IF x.k = "num" THEN Num(r) ELSE NaN

\* n / 2.54
cmToIn(x) == Arith(x, (x.v * 50) \div 127)
\* n * 2.54
inToCm(x) == Arith(x, (x.v * 127) \div 50)
\* n * 0.453592, on a weight
lbToKg(x) == Arith(x, (x.v \div 1000000) * 453592)
\* Math.round: floor(x + 0.5), at scale s
MathRound(x, s) == Arith(x, ((x.v + s \div 2) \div s) * s)

(* ------------------------------ size chart ----------------------------- *)
Row(label, b, w, h) ==
    [label |-> label,
     bust |-> <<b[1] * LS, b[2] * LS>>,
     waist |-> <<w[1] * LS, w[2] * LS>>,
     hip |-> <<h[1] * LS, h[2] * LS>>]

SIZE_CHART_IN ==
    << Row("S", <<32, 34>>, <<28, 30>>, <<34, 36>>),
       Row("M", <<34, 36>>, <<30, 32>>, <<36, 38>>),
       Row("L", <<36, 38>>, <<32, 34>>, <<38, 40>>),
       Row("XL", <<38, 40>>, <<34, 36>>, <<40, 42>>),
       Row("XXL", <<40, 42>>, <<36, 38>>, <<42, 44>>) >>

SIZE_CHART_CM ==
    << Row("S", <<80, 86>>, <<64, 70>>, <<86, 94>>),
       Row("M", <<87, 94>>, <<71, 78>>, <<95, 101>>),
       Row("L", <<95, 101>>, <<79, 86>>, <<102, 108>>),
       Row("XL", <<102, 108>>, <<87, 94>>, <<109, 115>>),
       Row("XXL", <<109, 116>>, <<95, 104>>, <<116, 124>>) >>

SIZE_CHART(vr) == IF vr \in InchVariants THEN SIZE_CHART_IN ELSE SIZE_CHART_CM

Labels == {"S", "M", "L", "XL", "XXL"}


(* ------------------------------ sizeByHW ------------------------------- *)
\* A height that reaches sizeByHW is a multiple of 0.1 (a body number, or a
\* Math.round result), so it is held in tenths for the squaring to fit.
BmiBelow(h, w, t) ==
    LET h10 == h.v \div (LS \div 10)
    IN  w.v < t * 10 * h10 * h10

\* sizeByHW with `<=` at every threshold
sizeByHWInclusive(h, w) ==
    IF ~Truthy(h) \/ ~Truthy(w) THEN Null
    ELSE IF h.k # "num" \/ w.k # "num" THEN "XXL"
    ELSE IF BmiBelow(h, w, 21) \/ w.v = 21 * 10 * (h.v \div (LS \div 10)) * (h.v \div (LS \div 10)) THEN "S"
    ELSE IF BmiBelow(h, w, 24) \/ w.v = 24 * 10 * (h.v \div (LS \div 10)) * (h.v \div (LS \div 10)) THEN "M"
    ELSE IF BmiBelow(h, w, 27) \/ w.v = 27 * 10 * (h.v \div (LS \div 10)) * (h.v \div (LS \div 10)) THEN "L"
    ELSE IF BmiBelow(h, w, 31) \/ w.v = 31 * 10 * (h.v \div (LS \div 10)) * (h.v \div (LS \div 10)) THEN "XL"
    ELSE "XXL"

\* bmi = weight_kg / (height_cm / 100)^2 ; every comparison with NaN is false
sizeByHW(h, w) ==
    IF ~Truthy(h) \/ ~Truthy(w) THEN Null
    ELSE IF h.k # "num" \/ w.k # "num" THEN "XXL"
    ELSE IF BmiBelow(h, w, 21) THEN "S"
    ELSE IF BmiBelow(h, w, 24) THEN "M"
    ELSE IF BmiBelow(h, w, 27) THEN "L"
    ELSE IF BmiBelow(h, w, 31) THEN "XL"
    ELSE "XXL"

(* ---------------------------- pickFromChart ---------------------------- *)
\* v >= lo && v <= hi : false for undefined, NaN and a non-numeric string
InRange(v, r) == v.k = "num" /\ v.v >= r[1] /\ v.v <= r[2]

mid(a, b) == (a + b) \div 2

Abs(x) == IF x < 0 THEN 0 - x ELSE x

\* the distance to the midpoint of the range wherever the value lies
distToMidpoint(v, r) ==
    IF v.k = "undef" THEN [nan |-> FALSE, d |-> 0]
    ELSE IF v.k # "num" THEN [nan |-> TRUE, d |-> 0]
    ELSE [nan |-> FALSE, d |-> Abs(v.v - mid(r[1], r[2])) * 10]

\* a distance that counts nothing for a value outside the range
distInsideOnly(v, r) ==
    IF v.k = "undef" THEN [nan |-> FALSE, d |-> 0]
    ELSE IF v.k # "num" THEN [nan |-> TRUE, d |-> 0]
    ELSE IF v.v < r[1] \/ v.v > r[2] THEN [nan |-> FALSE, d |-> 0]
    ELSE [nan |-> FALSE, d |-> Abs(v.v - mid(r[1], r[2]))]

\* dist, times 10 (so that `* 0.1` is exact): [nan, d]
dist(v, r) ==
    IF v.k = "undef" THEN [nan |-> FALSE, d |-> 0]
    ELSE IF v.k # "num" THEN [nan |-> TRUE, d |-> 0]
    ELSE IF v.v < r[1] THEN [nan |-> FALSE, d |-> (r[1] - v.v) * 10]
    ELSE IF v.v > r[2] THEN [nan |-> FALSE, d |-> (v.v - r[2]) * 10]
    ELSE [nan |-> FALSE, d |-> Abs(v.v - mid(r[1], r[2]))]

DistAdd(a, b) == [nan |-> a.nan \/ b.nan, d |-> a.d + b.d]

\* a < b on doubles: false when either is NaN
DistLess(a, b) == ~a.nan /\ ~b.nan /\ a.d < b.d

score(s, b, w, h) ==
    (IF InRange(b, s.bust) THEN 1 ELSE 0)
    + (IF InRange(w, s.waist) THEN 1 ELSE 0)
    + (IF InRange(h, s.hip) THEN 1 ELSE 0)

rowDist(s, b, w, h) ==
    DistAdd(DistAdd(dist(b, s.bust), dist(w, s.waist)), dist(h, s.hip))

NoBest == [label |-> Null, score |-> 0 - 1, dist |-> [nan |-> FALSE, d |-> 0]]

\* Better with `d <= best.dist`: the last of several tied rows wins
BetterOrEqual(best, sc, d) ==
    \/ best.label = Null
    \/ sc > best.score
    \/ (sc = best.score /\ ~d.nan /\ ~best.dist.nan /\ d.d <= best.dist.d)

\* if (!best || score > best.score || (score === best.score && d < best.dist))
Better(best, sc, d) ==
    \/ best.label = Null
    \/ sc > best.score
    \/ (sc = best.score /\ DistLess(d, best.dist))

RECURSIVE chartLoop(_, _, _, _, _, _)
chartLoop(chart, i, best, b, w, h) ==
    IF i > Len(chart) THEN best
    ELSE LET s == chart[i]
             sc == score(s, b, w, h)
             d == rowDist(s, b, w, h)
         IN  chartLoop(chart, i + 1,
                       IF Better(best, sc, d)
                       THEN [label |-> s.label, score |-> sc, dist |-> d]
                       ELSE best,
                       b, w, h)

\* if (bust == null && waist == null && hip == null) return null;
allNull(b, w, h) == ~NotNullish(b) /\ ~NotNullish(w) /\ ~NotNullish(h)

\* if (!bust_cm && !waist_cm && !hip_cm) return null;
allFalsy(b, w, h) == ~Truthy(b) /\ ~Truthy(w) /\ ~Truthy(h)

\* the falsy guard in every copy: a bust of 0 counts as absent
noDecisionFalsy(vr, b, w, h) == allFalsy(b, w, h)

noDecision(vr, b, w, h) ==
    IF vr = "APP" THEN allFalsy(b, w, h) ELSE allNull(b, w, h)

pickFromChart(vr, b, w, h) ==
    IF noDecision(vr, b, w, h) THEN Null
    ELSE chartLoop(SIZE_CHART(vr), 1, NoBest, b, w, h).label

(* ------------------------------ parseBra ------------------------------- *)
\* A string is a sequence of one-character strings.
Digits == {"0", "1", "2", "3", "4", "5", "6", "7", "8", "9"}
Upper == {"A", "B", "C", "D", "E", "F", "G"}
Lower == {"a", "b", "c", "d", "e", "f", "g"}
Spaces == {" ", "\t"}

toUpperCase(c) ==
    CASE c = "a" -> "A" [] c = "b" -> "B" [] c = "c" -> "C" [] c = "d" -> "D"
      [] c = "e" -> "E" [] c = "f" -> "F" [] c = "g" -> "G" [] OTHER -> c

digitValue(c) ==
    CASE c = "0" -> 0 [] c = "1" -> 1 [] c = "2" -> 2 [] c = "3" -> 3
      [] c = "4" -> 4 [] c = "5" -> 5 [] c = "6" -> 6 [] c = "7" -> 7
      [] c = "8" -> 8 [] c = "9" -> 9

\* bra.replace(/\s+/g, "").toUpperCase()
NotSpace(c) == c \notin Spaces
braClean(s) == LET t == SelectSeq(s, NotSpace) IN [i \in 1..Len(t) |-> toUpperCase(t[i])]

\* a pattern of two digits and exactly one letter
braMatchesOneLetter(t) ==
    /\ Len(t) = 3
    /\ t[1] \in Digits /\ t[2] \in Digits
    /\ t[3] \in Upper

\* .match(/^(\d{2})([A-Z]+)$/)
braMatches(t) ==
    /\ Len(t) >= 3
    /\ t[1] \in Digits /\ t[2] \in Digits
    /\ \A i \in 3..Len(t) : t[i] \in Upper

RECURSIVE Join(_)
Join(t) == IF t = <<>> THEN "" ELSE Head(t) \o Join(Tail(t))

\* body.bra is [k |-> "undef"] or [k |-> "str", s |-> the characters];
\* the result is {band, cup}: band a number or Undef (null), cup a string or Null
NoBra == [band |-> Undef, cup |-> Null]

parseBra(bra) ==
    IF bra.k = "undef" \/ bra.s = <<>> THEN NoBra
    ELSE LET t == braClean(bra.s)
         IN  IF ~braMatches(t) THEN NoBra
             ELSE [band |-> Num(digitValue(t[1]) * 10 + digitValue(t[2])),
                   cup |-> Join(SubSeq(t, 3, Len(t)))]

\* cupMap[bra_cup] || 7.5, in tenths
cupMap(cup) ==
    CASE cup = "A" -> 25 [] cup = "B" -> 50 [] cup = "C" -> 75
      [] cup = "D" -> 100 [] cup = "DD" -> 125 [] cup = "E" -> 125
      [] cup = "F" -> 150 [] OTHER -> 75

\* bust_est = bra_band * 2.54 + (cupMap[bra_cup] || 7.5) * 2.54, as a length
braBust(band, cup) ==
    Num(inToCm(Num(band.v * LS)).v + inToCm(ToLen(Num(cupMap(cup)))).v)

\* let bust_est = bust_cm; if (!bust_est && bra_band && bra_cup) bust_est = ...
bustEst(bust_cm, br) ==
    IF ~Truthy(bust_cm) /\ Truthy(br.band) /\ br.cup # Null
    THEN braBust(br.band, br.cup)
    ELSE bust_cm

(* ---------------------------- chooseCoverage --------------------------- *)
Coverages == {"burkini", "knee length", "one-piece", "one-piece + rash guard"}

\* chooseCoverage with the modesty rule ahead of the preferences
chooseCoverageModestyFirst(activity, modesty, tummy, pref) ==
    IF modesty = "high" THEN "burkini"
    ELSE IF pref = "burkini" THEN "burkini"
    ELSE IF pref = "swimdress" THEN "knee length"
    ELSE IF pref = "rashguard" THEN "one-piece + rash guard"
    ELSE IF activity = "swim_class" \/ activity = "aqua_fitness"
         THEN (IF modesty = "medium" THEN "knee length" ELSE "one-piece")
    ELSE "knee length"

\* chooseCoverage without the medium-modesty branch
chooseCoverageNoMedium(activity, modesty, tummy, pref) ==
    IF pref = "burkini" THEN "burkini"
    ELSE IF pref = "swimdress" THEN "knee length"
    ELSE IF pref = "rashguard" THEN "one-piece + rash guard"
    ELSE IF modesty = "high" THEN "burkini"
    ELSE IF activity = "swim_class" \/ activity = "aqua_fitness" THEN "one-piece"
    ELSE "knee length"

\* a rule that names the preference onepiece
chooseCoverageOnepiece(activity, modesty, tummy, pref) ==
    IF pref = "burkini" THEN "burkini"
    ELSE IF pref = "swimdress" THEN "knee length"
    ELSE IF pref = "rashguard" THEN "one-piece + rash guard"
    ELSE IF pref = "onepiece" THEN "one-piece"
    ELSE IF modesty = "high" THEN "burkini"
    ELSE IF activity = "swim_class" \/ activity = "aqua_fitness"
         THEN (IF modesty = "medium" THEN "knee length" ELSE "one-piece")
    ELSE "knee length"

chooseCoverage(activity, modesty, tummy, pref) ==
    IF pref = "burkini" THEN "burkini"
    ELSE IF pref = "swimdress" THEN "knee length"
    ELSE IF pref = "rashguard" THEN "one-piece + rash guard"
    ELSE IF modesty = "high" THEN "burkini"
    ELSE IF activity = "swim_class" \/ activity = "aqua_fitness"
         THEN (IF modesty = "medium" THEN "knee length" ELSE "one-piece")
    ELSE IF tummy THEN "knee length"
    ELSE "knee length"

(* ------------------------------- fitCopy ------------------------------- *)
\* hints.join(" & ")
RECURSIVE join(_, _)
join(hints, sep) ==
    IF hints = <<>> THEN ""
    ELSE IF Len(hints) = 1 THEN hints[1]
    ELSE hints[1] \o sep \o join(Tail(hints), sep)

\* "full coverage" for high modesty only, the burkini forgotten
fitHintsModestyOnly(coverage, t, a, m) ==
    (IF t THEN <<"tummy-control panels">> ELSE <<>>)
    \o (IF a = "swim_class" THEN <<"secure shoulder coverage">> ELSE <<>>)
    \o (IF m = "high" THEN <<"full coverage">> ELSE <<>>)

fitHints(coverage, t, a, m) ==
    (IF t THEN <<"tummy-control panels">> ELSE <<>>)
    \o (IF a = "swim_class" THEN <<"secure shoulder coverage">> ELSE <<>>)
    \o (IF m = "high" \/ coverage = "burkini" THEN <<"full coverage">> ELSE <<>>)

\* the closing sentence: the copy of src/app/size/recommend/route.ts has a comma
fitTail(vr) ==
    IF vr = "APP"
    THEN ". For close fit, choose your measured size; for relaxed fit, consider one size up."
    ELSE ". For close fit choose your measured size; for relaxed fit, consider one size up."

fitCopy(vr, size, coverage, t, a, m) ==
    LET hints == fitHints(coverage, t, a, m)
        extra == IF Len(hints) # 0 THEN " with " \o join(hints, " & ") ELSE ""
    IN  "We suggest **" \o size \o "** in a **" \o coverage \o "** style"
        \o extra \o fitTail(vr)

(* ------------------------------- request ------------------------------- *)
\* The fields of the JSON body the handlers read.  Numbers are in tenths.
EmptyBody ==
    [unit |-> Absent,
     bust_in |-> Undef, waist_in |-> Undef, hip_in |-> Undef,
     height_cm |-> Undef, weight_kg |-> Undef,
     bust |-> Undef, waist |-> Undef, hip |-> Undef,
     height |-> Undef, weight |-> Undef,
     bra |-> [k |-> "undef", s |-> <<>>],
     activity |-> Absent, modesty |-> Absent,
     tummy_control |-> Absent, style_preference |-> Absent]

(* --------------------------- normalization ----------------------------- *)
\* typeof body.x === "number" ? body.x : undefined
numOrUndef(x) == IF IsNumber(x) THEN x ELSE Undef

\* the legacy value overwriting the explicit one
orElseLegacyFirst(a, b) == IF NotNullish(b) THEN b ELSE a

\* a ?? b   /   (a != null) ? a : b
orElse(a, b) == IF NotNullish(a) THEN a ELSE b

\* legacy bust/waist/hip of the inch-chart copies:
\* typeof v === "number" ? (unit === "imperial" ? v : cmToIn(v)) : undefined
legacyIn(v, unit) ==
    IF ~IsNumber(v) THEN Undef
    ELSE IF unit = "imperial" THEN ToLen(v) ELSE cmToIn(ToLen(v))

\* typeof v === "number" ? (unit === "imperial" ? Math.round(v * 2.54) : Math.round(v)) : undefined
legacyHeight(v, unit) ==
    IF ~IsNumber(v) THEN Undef
    ELSE IF unit = "imperial" THEN MathRound(inToCm(ToLen(v)), LS)
    ELSE MathRound(ToLen(v), LS)

\* typeof v === "number" ? (unit === "imperial" ? lbToKg(v) : v) : undefined
legacyWeight(v, unit) ==
    IF ~IsNumber(v) THEN Undef
    ELSE IF unit = "imperial" THEN lbToKg(ToWt(v)) ELSE ToWt(v)

\* part_000: explicit fields pass typeof, then win over the legacy ones
normP0(b) ==
    LET unit == IF b.unit = "imperial" THEN "imperial"
                ELSE IF b.unit = "metric" THEN "metric" ELSE Absent
    IN  [unit |-> unit,
         bust |-> orElse(ToLen(numOrUndef(b.bust_in)), legacyIn(b.bust, unit)),
         waist |-> orElse(ToLen(numOrUndef(b.waist_in)), legacyIn(b.waist, unit)),
         hip |-> orElse(ToLen(numOrUndef(b.hip_in)), legacyIn(b.hip, unit)),
         height |-> orElse(ToLen(numOrUndef(b.height_cm)), legacyHeight(b.height, unit)),
         weight |-> orElse(ToWt(numOrUndef(b.weight_kg)), legacyWeight(b.weight, unit))]

\* api route.ts, lines 100-116: explicit fields pass `?? undefined` (any type)
normAPI1(b) ==
    LET unit == IF b.unit = "imperial" THEN "imperial" ELSE "metric"
    IN  [unit |-> unit,
         bust |-> orElse(ToLen(b.bust_in), legacyIn(b.bust, b.unit)),
         waist |-> orElse(ToLen(b.waist_in), legacyIn(b.waist, b.unit)),
         hip |-> orElse(ToLen(b.hip_in), legacyIn(b.hip, b.unit)),
         height |-> orElse(ToLen(b.height_cm), legacyHeight(b.height, b.unit)),
         weight |-> orElse(ToWt(b.weight_kg), legacyWeight(b.weight, b.unit))]

\* body.x ? (unit === "imperial" ? inToCm(body.x) : body.x) : undefined
truthyCm(v, unit) ==
    IF ~Truthy(v) THEN Undef
    ELSE IF unit = "imperial" THEN inToCm(ToLen(v)) ELSE ToLen(v)

\* body.height ? (unit === "imperial" ? Math.round(inToCm(h)) : Math.round(h)) : undefined
truthyHeight(v, unit) ==
    IF ~Truthy(v) THEN Undef
    ELSE IF unit = "imperial" THEN MathRound(inToCm(ToLen(v)), LS)
    ELSE MathRound(ToLen(v), LS)

\* body.weight ? (unit === "imperial" ? Math.round(w * 0.453592) : Math.round(w)) : undefined
truthyWeight(v, unit) ==
    IF ~Truthy(v) THEN Undef
    ELSE IF unit = "imperial" THEN MathRound(lbToKg(ToWt(v)), WS)
    ELSE MathRound(ToWt(v), WS)

\* the cm-chart copies; `unit` is body.unit || "metric" in src/app/size, and
\* body.unit === "imperial" ? "imperial" : "metric" in the other two
normCm(vr, b) ==
    LET unit == IF vr = "APP"
                THEN (IF b.unit = Absent \/ b.unit = "" THEN "metric" ELSE b.unit)
                ELSE (IF b.unit = "imperial" THEN "imperial" ELSE "metric")
    IN  [unit |-> unit,
         bust |-> truthyCm(b.bust, unit),
         waist |-> truthyCm(b.waist, unit),
         hip |-> truthyCm(b.hip, unit),
         height |-> truthyHeight(b.height, unit),
         weight |-> truthyWeight(b.weight, unit)]

normalize(vr, b) ==
    IF vr = "P0" THEN normP0(b)
    ELSE IF vr = "API1" THEN normAPI1(b)
    ELSE normCm(vr, b)

(* ------------------------------- handler ------------------------------- *)
\* a || b on size labels (a label is a non-empty string; Null is falsy)
orLabel(a, b) == IF a # Null THEN a ELSE b

\* byHW || byChart || "M"
sizeOfHWFirst(byChart, byHW) == orLabel(byHW, orLabel(byChart, "M"))

\* byChart || byHW, the default forgotten
sizeOfNoDefault(byChart, byHW) == orLabel(byChart, byHW)

\* const size = byChart || byHW || "M";
sizeOf(byChart, byHW) == orLabel(byChart, orLabel(byHW, "M"))

\* The copy at api route.ts lines 97-154 never declares `size`: evaluating
\* fitCopy(size, ...) at line 124 throws a ReferenceError.
sizeDeclared(vr) == vr # "API1"

\* Only the cm-chart copies estimate the bust from the bra string.
braOf(vr, b) == IF vr \in InchVariants THEN NoBra ELSE parseBra(b.bra)

\* The locals of POST from the parsed body down to the notes.
locals(vr, b) ==
    LET n == normalize(vr, b)
        br == braOf(vr, b)
        bust == IF vr \in InchVariants THEN n.bust ELSE bustEst(n.bust, br)
        byChart == pickFromChart(vr, bust, n.waist, n.hip)
        byHW == sizeByHW(n.height, n.weight)
        tummy == TruthyS(b.tummy_control)
        coverage == chooseCoverage(b.activity, b.modesty, tummy, b.style_preference)
        size == IF sizeDeclared(vr) THEN sizeOf(byChart, byHW) ELSE Absent
    IN  [unit |-> n.unit, bust |-> bust, waist |-> n.waist, hip |-> n.hip,
         height |-> n.height, weight |-> n.weight,
         bra_band |-> br.band, bra_cup |-> br.cup,
         byChart |-> byChart, byHW |-> byHW,
         size |-> size, coverage |-> coverage,
         notes |-> IF sizeDeclared(vr)
                   THEN fitCopy(vr, size, coverage, tummy, b.activity, b.modesty)
                   ELSE Absent]

NoLocals ==
    [unit |-> Absent, bust |-> Undef, waist |-> Undef, hip |-> Undef,
     height |-> Undef, weight |-> Undef, bra_band |-> Undef, bra_cup |-> Null,
     byChart |-> Null, byHW |-> Null, size |-> Absent, coverage |-> Absent,
     notes |-> Absent]

\* process.env.NEXT_PUBLIC_SUPABASE_URL && process.env.SUPABASE_SERVICE_ROLE
configured(e) == e.url /\ e.key

LazyVariants == {"P0", "API1"}

\* getSB handing out the client only on the call that creates it
getSBOnlyFresh(e, h) ==
    IF ~configured(e) THEN [ret |-> Null, handle |-> h, made |-> 0]
    ELSE IF h = Null THEN [ret |-> "client", handle |-> "client", made |-> 1]
    ELSE [ret |-> Null, handle |-> h, made |-> 0]

\* a getSB that makes a new client on every call
getSBAlwaysCreates(e, h) ==
    IF ~configured(e) THEN [ret |-> Null, handle |-> h, made |-> 0]
    ELSE [ret |-> "client", handle |-> "client", made |-> 1]

\* getSB(): the handle it returns, and the module-level _sb afterwards
getSB(e, h) ==
    IF ~configured(e) THEN [ret |-> Null, handle |-> h, made |-> 0]
    ELSE IF h = Null THEN [ret |-> "client", handle |-> "client", made |-> 1]
    ELSE [ret |-> h, handle |-> h, made |-> 0]

\* Does this copy call insert?  `if (sb)`, the env guard, or no guard at all.
logs(vr, e, h) ==
    IF vr \in LazyVariants THEN getSB(e, h).ret # Null
    ELSE IF vr = "APP" THEN TRUE
    ELSE configured(e)

\* the row handed to insert (the fields the claims speak of)
record(vr, b, l) ==
    LET br == parseBra(b.bra)
    IN  [unit_system |-> IF vr = "P0" THEN "mixed:in+kg" ELSE l.unit,
         bra_band |-> br.band, bra_cup |-> br.cup,
         recommended_size |-> l.size,
         recommended_style |-> l.coverage,
         fit_notes |-> l.notes]

\* NextResponse.json({ ok: true, size, coverage, fitNotes: notes })
Success(l) ==
    [ok |-> TRUE, status |-> 200, size |-> l.size, coverage |-> l.coverage,
     fitNotes |-> l.notes, error |-> Absent]

\* NextResponse.json({ ok: false, error: String(e?.message || e) }, { status: 400 })
Failure(msg) ==
    [ok |-> FALSE, status |-> 400, size |-> Absent, coverage |-> Absent,
     fitNotes |-> Absent, error |-> msg]

NoResp ==
    [ok |-> FALSE, status |-> 0, size |-> Absent, coverage |-> Absent,
     fitNotes |-> Absent, error |-> Absent]

(* ------------------------------- requests ------------------------------ *)
\* Bounds of the request bodies explored.
CoarseN == 8
FineBeyond == 2
WeightN == 22

\* coarse grids for bust x waist x hip: 27.5, 30, ... inches; 60, 70, ... cm
InchCoarse == {Num(275 + 25 * k) : k \in 0..(CoarseN - 1)}
CmCoarse == {Num(600 + 100 * k) : k \in 0..(CoarseN - 1)}
\* half-unit grids over the whole chart and FineBeyond units past its ends
InchFine == {Num(5 * k) : k \in (2 * (28 - FineBeyond))..(2 * (44 + FineBeyond))}
CmFine == {Num(5 * k) : k \in (2 * (64 - FineBeyond))..(2 * (124 + FineBeyond))}
\* far outside every row, and zero
Far == {Num(0), Num(10), Num(2000)}

Opt(S) == {Undef} \cup S

BodiesExplicit ==
    {[EmptyBody EXCEPT !.bust_in = b, !.waist_in = w, !.hip_in = h] :
        b \in Opt(InchCoarse), w \in Opt(InchCoarse), h \in Opt(InchCoarse)}

BodiesLegacy ==
    {[EmptyBody EXCEPT !.unit = "metric", !.bust = b, !.waist = w, !.hip = h] :
        b \in Opt(CmCoarse), w \in Opt(CmCoarse), h \in Opt(CmCoarse)}
    \cup
    {[EmptyBody EXCEPT !.unit = "imperial", !.bust = b, !.waist = w, !.hip = h] :
        b \in Opt(InchCoarse), w \in Opt(InchCoarse), h \in Opt(InchCoarse)}

BodiesOneAxis ==
    UNION {
      {[EmptyBody EXCEPT !.bust_in = v], [EmptyBody EXCEPT !.waist_in = v],
       [EmptyBody EXCEPT !.hip_in = v],
       [EmptyBody EXCEPT !.unit = "imperial", !.bust = v],
       [EmptyBody EXCEPT !.unit = "imperial", !.waist = v],
       [EmptyBody EXCEPT !.unit = "imperial", !.hip = v]} : v \in InchFine \cup Far}
    \cup
    UNION {
      {[EmptyBody EXCEPT !.bust = v], [EmptyBody EXCEPT !.waist = v],
       [EmptyBody EXCEPT !.hip = v]} : v \in CmFine \cup Far}

\* height x weight: explicit (cm, kg), legacy metric, legacy imperial (in, lb)
HeightsCm == {Num(0), Num(1000), Num(1500), Num(1650), Num(1654), Num(1655), Num(2000)}
WeightsKg == {Num(60 * k) : k \in 0..WeightN} \cup {Num(472), Num(473), Num(605)}
HeightsIn == {Num(0), Num(590), Num(650), Num(705)}
WeightsLb == {Num(0), Num(1100), Num(1323), Num(1800), Num(2100)}

BodiesHW ==
    {[EmptyBody EXCEPT !.height_cm = h, !.weight_kg = w] :
        h \in Opt(HeightsCm), w \in Opt(WeightsKg)}
    \cup
    {[EmptyBody EXCEPT !.unit = u, !.height = h, !.weight = w] :
        u \in {Absent, "metric"}, h \in Opt(HeightsCm), w \in Opt(WeightsKg)}
    \cup
    {[EmptyBody EXCEPT !.unit = "imperial", !.height = h, !.weight = w] :
        h \in Opt(HeightsIn), w \in Opt(WeightsLb)}

\* measurements together with height and weight, explicit and legacy at once
BodiesMixed ==
    {[EmptyBody EXCEPT !.unit = u, !.bust_in = bi, !.bust = b, !.hip = hp,
                       !.height_cm = hc, !.weight_kg = wk,
                       !.height = h, !.weight = w] :
        u \in {Absent, "metric"},
        bi \in {Undef, Num(0), Num(350)}, b \in {Undef, Num(900)},
        hp \in {Undef, Num(1200)},
        hc \in {Undef, Num(1650)}, wk \in {Undef, Num(600), Num(900)},
        h \in {Undef, Num(1700)}, w \in {Undef, Num(550)}}

\* one axis at a time, the explicit and the legacy field each there or not
BodiesBoth ==
    UNION {
      {[EmptyBody EXCEPT !.unit = u, !.bust_in = e, !.bust = l],
       [EmptyBody EXCEPT !.unit = u, !.waist_in = e, !.waist = l],
       [EmptyBody EXCEPT !.unit = u, !.hip_in = e, !.hip = l]} :
        u \in {Absent, "metric", "imperial"},
        e \in {Undef, Num(0), Num(330), Num(390)},
        l \in {Undef, Num(0), Num(370), Num(1050)}}
    \cup
    {[EmptyBody EXCEPT !.unit = u, !.height_cm = e, !.height = l, !.weight_kg = Num(600)] :
        u \in {Absent, "metric", "imperial"},
        e \in {Undef, Num(0), Num(1500)}, l \in {Undef, Num(0), Num(650), Num(705)}}
    \cup
    {[EmptyBody EXCEPT !.unit = u, !.weight_kg = e, !.weight = l, !.height_cm = Num(1650)] :
        u \in {Absent, "metric", "imperial"},
        e \in {Undef, Num(0), Num(500)}, l \in {Undef, Num(0), Num(905), Num(1800)}}

Activities == {Absent, "beach", "swim_class", "aqua_fitness", "surfing"}
Modesties == {Absent, "low", "medium", "high", "extreme"}
Tummies == {Absent, "true", "false"}
Preferences == {Absent, "swimdress", "onepiece", "burkini", "rashguard", "bikini"}

BodiesCoverage ==
    {[EmptyBody EXCEPT !.activity = a, !.modesty = m, !.tummy_control = t,
                       !.style_preference = p] :
        a \in Activities, m \in Modesties, t \in Tummies, p \in Preferences}

StrOf(s) == [k |-> "str", s |-> s]

BraStrings ==
    { <<"3", "6", "C">>, <<"3", "6", "c">>, <<"3", "6", " ", "C">>,
      <<"3", "2", "A">>, <<"3", "4", "B">>, <<"3", "8", "D">>,
      <<"3", "4", "D", "D">>, <<"4", "0", "E">>, <<"4", "2", "F">>,
      <<"3", "6", "G">>, <<"3", "0", "d", "d">>, <<"0", "0", "C">>,
      <<"3", "6">>, <<"C", "3", "6">>, <<"3", "C">>, <<"1", "3", "6", "C">>,
      <<"3", "6", "-", "C">>, <<" ", "3", "4", "\t", "b", " ">>, <<>> }

BodiesBra ==
    {[EmptyBody EXCEPT !.unit = u, !.bra = StrOf(s), !.bust = b, !.bust_in = bi,
                       !.height_cm = hc, !.weight_kg = wk] :
        u \in {Absent, "imperial"}, s \in BraStrings,
        b \in {Undef, Num(0), Num(900)}, bi \in {Undef, Num(350)},
        hc \in {Undef, Num(1650)}, wk \in {Undef, Num(900)}}

Envs == [url : BOOLEAN, key : BOOLEAN]
EnvSet == [url |-> TRUE, key |-> TRUE]

\* a few bodies of every family, run under every environment
BodiesEnv ==
    {EmptyBody,
     [EmptyBody EXCEPT !.bust_in = Num(350)],
     [EmptyBody EXCEPT !.bust = Num(900), !.unit = "metric"],
     [EmptyBody EXCEPT !.height_cm = Num(1650), !.weight_kg = Num(600)],
     [EmptyBody EXCEPT !.height = Num(1650), !.weight = Num(600)],
     [EmptyBody EXCEPT !.bra = StrOf(<<"3", "6", "C">>)],
     [EmptyBody EXCEPT !.modesty = "high", !.tummy_control = "true"],
     [EmptyBody EXCEPT !.style_preference = "rashguard", !.activity = "swim_class"]}

\* (body, environment) pairs: the families run with the sink configured,
\* BodiesEnv under every environment
Requests ==
    ((BodiesExplicit \cup BodiesLegacy \cup BodiesOneAxis \cup BodiesHW
      \cup BodiesMixed \cup BodiesBoth \cup BodiesCoverage \cup BodiesBra)
     \X {EnvSet})
    \cup (BodiesEnv \X Envs)

\* A second request to the same module instance: its own body, position,
\* locals, inserts and response.  "idle": there is none.
NoPeer ==
    [payload_ok |-> TRUE, body |-> EmptyBody, pc |-> "idle", loc |-> NoLocals,
     inserts |-> <<>>, outcome |-> "none", resp |-> NoResp]

(* ----------------------------- browser pages --------------------------- *)
\* The try-on page.  Each run of its camera effect is an instance with its
\* own `stopped` and `segmenter`, and its position in init(); the stream an
\* instance acquires carries the instance's number.
MaxEffects == 2
MaxFrames == 2
Effects == 1..MaxEffects

NoEffect ==
    [pc |-> "unborn", stopped |-> FALSE, cleaned |-> FALSE,
     segmenter |-> "null", frames |-> 0, late |-> FALSE]

\* ref: videoRef.current and canvasRef.current are attached; srcObject: the
\* stream held by the video element (0: none); started: effect runs so far
NoPage ==
    [mounted |-> FALSE, ref |-> FALSE, srcObject |-> 0, started |-> 0,
     fx |-> [i \in Effects |-> NoEffect],
     stream |-> [i \in Effects |-> "none"]]

\* The SizeFinder form.  Each call of submit() is a flight with its position
\* and the response it got; `sent` counts the calls.
MaxSubmits == 2
Flights == 1..MaxSubmits

NoFlight == [pc |-> "idle", r |-> NoResp, unit |-> "metric", tummy |-> FALSE]

\* res === null, as a record so that it compares with a result
NoRes == [k |-> "null", size |-> Absent, coverage |-> Absent, fitNotes |-> Absent]

NoForm ==
    [unit |-> "metric", tummy |-> FALSE, busy |-> FALSE, res |-> NoRes,
     err |-> Null, sent |-> 0, flight |-> [i \in Flights |-> NoFlight]]

(* ----------------------------- state machine --------------------------- *)
\* One request against one copy of the handler.  The module is loaded: the
\* lazy copies have no client yet, the others built theirs at load time.
InitOn(R) ==
    /\ variant \in Variants
    /\ payload_ok \in BOOLEAN
    /\ \E r \in R :
          /\ body = (IF payload_ok THEN r[1] ELSE EmptyBody)
          /\ env = r[2]
    /\ pc = "start"
    /\ loc = NoLocals
    /\ sb = (IF variant \in LazyVariants THEN Null ELSE "client")
    /\ created = (IF variant \in LazyVariants THEN 0 ELSE 1)
    /\ inserts = <<>>
    /\ outcome = "none"
    /\ resp = NoResp
    /\ peer = NoPeer
    /\ page = NoPage
    /\ form = NoForm

Init == InitOn(Requests)

\* `await req.json()` rejects: catch -> 400
JsonRejects ==
    /\ pc = "start" /\ ~payload_ok
    /\ resp' = Failure("Unexpected token in JSON")
    /\ pc' = "done"
    /\ UNCHANGED <<page, form, peer, variant, env, payload_ok, body, loc, sb, created, inserts,
                   outcome>>

\* the body parsed; the copy without `size` throws at fitCopy(size, ...)
PostThrows ==
    /\ pc = "start" /\ payload_ok /\ ~sizeDeclared(variant)
    /\ loc' = locals(variant, body)
    /\ resp' = Failure("size is not defined")
    /\ pc' = "done"
    /\ UNCHANGED <<page, form, peer, variant, env, payload_ok, body, sb, created, inserts,
                   outcome>>

\* the body parsed and the copy logs: run down to `await ...insert({...})`
PostInserts ==
    /\ pc = "start" /\ payload_ok /\ sizeDeclared(variant)
    /\ logs(variant, env, sb)
    /\ loc' = locals(variant, body)
    /\ IF variant \in LazyVariants
       THEN /\ sb' = getSB(env, sb).handle
            /\ created' = created + getSB(env, sb).made
       ELSE UNCHANGED <<sb, created>>
    /\ inserts' = Append(inserts, record(variant, body, locals(variant, body)))
    /\ pc' = "insert"
    /\ UNCHANGED <<page, form, peer, variant, env, payload_ok, body, outcome, resp>>

\* the body parsed and the copy does not log: run down to the return
PostReturns ==
    /\ pc = "start" /\ payload_ok /\ sizeDeclared(variant)
    /\ ~logs(variant, env, sb)
    /\ loc' = locals(variant, body)
    /\ resp' = Success(locals(variant, body))
    /\ pc' = "done"
    /\ UNCHANGED <<page, form, peer, variant, env, payload_ok, body, sb, created, inserts,
                   outcome>>

\* the awaited insert settles (with data or with an {error} result, both
\* ignored): the handler returns the recommendation
InsertResolves ==
    /\ pc = "insert"
    /\ outcome' = "resolved"
    /\ resp' = Success(loc)
    /\ pc' = "done"
    /\ UNCHANGED <<page, form, peer, variant, env, payload_ok, body, loc, sb, created, inserts>>

\* the catch issuing the insert once more after a rejection
InsertRejectsRetry ==
    /\ pc = "insert" /\ Len(inserts) < 2
    /\ outcome' = "rejected"
    /\ inserts' = Append(inserts, inserts[Len(inserts)])
    /\ UNCHANGED <<page, form, peer, variant, env, payload_ok, body, pc, loc, sb, created, resp>>

\* the awaited insert rejects or throws: the catch of POST answers 400
InsertRejects ==
    /\ pc = "insert"
    /\ outcome' = "rejected"
    /\ resp' = Failure("insert failed")
    /\ pc' = "done"
    /\ UNCHANGED <<page, form, peer, variant, env, payload_ok, body, loc, sb, created, inserts>>

Next ==
    \/ JsonRejects
    \/ PostThrows
    \/ PostInserts
    \/ PostReturns
    \/ InsertResolves
    \/ InsertRejects

Spec == Init /\ [][Next]_vars

\* The form offers "Or Bra (e.g., 36C)": requests that give a bra size of a
\* real band and cup instead of a bust, with or without the other fields.
BodiesBraOnly ==
    {[EmptyBody EXCEPT !.bra = StrOf(s), !.waist_in = wi, !.hip = hp,
                       !.height_cm = hc, !.weight_kg = wk,
                       !.modesty = m] :
        s \in {<<"3", "6", "C">>, <<"3", "4", "B">>, <<"3", "2", "A">>,
               <<"3", "8", "D", "D">>, <<"3", "6", "G">>},
        wi \in {Undef, Num(310)}, hp \in {Undef, Num(1000)},
        hc \in {Undef, Num(1650)}, wk \in {Undef, Num(600)},
        m \in {Absent, "high"}}

InitBra == InitOn(BodiesBraOnly \X Envs)

SpecBra == InitBra /\ [][Next]_vars

\* Requests that give 0 for exactly one measurement field and nothing else.
BodiesZero ==
    {EmptyBody} \cup
    {[[EmptyBody EXCEPT !.unit = u] EXCEPT ![f] = Num(0)] :
        u \in {Absent, "metric", "imperial"},
        f \in {"bust_in", "waist_in", "hip_in", "height_cm", "weight_kg",
               "bust", "waist", "hip", "height", "weight"}}

InitZero == InitOn(BodiesZero \X Envs)

SpecZero == InitZero /\ [][Next]_vars

\* Requests in which one measurement field holds a non-numeric string such
\* as "abc", alone or next to a legacy height and weight.
BodiesStr ==
    {[[EmptyBody EXCEPT !.unit = u, !.height = h, !.weight = w] EXCEPT ![f] = Str] :
        u \in {Absent, "imperial"},
        h \in {Undef, Num(650)}, w \in {Undef, Num(600)},
        f \in {"bust_in", "waist_in", "hip_in", "height_cm", "weight_kg",
               "bust", "waist", "hip", "height", "weight"}}

InitStr == InitOn(BodiesStr \X Envs)

SpecStr == InitStr /\ [][Next]_vars

\* The handler's own steps run once enabled (the runtime resumes an async
\* function whose awaited promise has settled), and here the sink settles
\* every insert as well, one way or the other.  What happens to the write
\* does not depend on the measurements: the requests are those with coverage
\* inputs or with height and weight.
InitLive == InitOn((BodiesCoverage \cup BodiesHW) \X Envs)

Handler == JsonRejects \/ PostThrows \/ PostInserts \/ PostReturns

Settles == InsertResolves \/ InsertRejects

SpecLive == InitLive /\ [][Next]_vars /\ WF_vars(Handler) /\ WF_vars(Settles)

(* ---------------------------- two requests ---------------------------- *)
\* Two requests in flight in one module instance.  Each runs to its next
\* await without interruption (one JS thread); they share process.env, the
\* module-level _sb and nothing else.  Earlier requests may have created the
\* lazy client already.
InitTwo ==
    /\ variant \in Variants
    /\ env \in Envs
    /\ payload_ok \in BOOLEAN
    /\ \E b \in BodiesEnv : body = (IF payload_ok THEN b ELSE EmptyBody)
    /\ \E ok \in BOOLEAN, b \in BodiesEnv :
          peer = [NoPeer EXCEPT !.payload_ok = ok,
                                !.body = (IF ok THEN b ELSE EmptyBody),
                                !.pc = "start"]
    /\ pc = "start"
    /\ loc = NoLocals
    /\ sb \in (IF variant \in LazyVariants
               THEN (IF configured(env) THEN {Null, "client"} ELSE {Null})
               ELSE {"client"})
    /\ created = (IF sb = Null THEN 0 ELSE 1)
    /\ inserts = <<>>
    /\ outcome = "none"
    /\ resp = NoResp
    /\ page = NoPage
    /\ form = NoForm

first == <<payload_ok, body, pc, loc, inserts, outcome, resp>>

PeerJsonRejects ==
    /\ peer.pc = "start" /\ ~peer.payload_ok
    /\ peer' = [peer EXCEPT !.resp = Failure("Unexpected token in JSON"),
                            !.pc = "done"]
    /\ UNCHANGED <<page, form, variant, env, sb, created, first>>

PeerPostThrows ==
    /\ peer.pc = "start" /\ peer.payload_ok /\ ~sizeDeclared(variant)
    /\ peer' = [peer EXCEPT !.loc = locals(variant, peer.body),
                            !.resp = Failure("size is not defined"),
                            !.pc = "done"]
    /\ UNCHANGED <<page, form, variant, env, sb, created, first>>

PeerPostInserts ==
    /\ peer.pc = "start" /\ peer.payload_ok /\ sizeDeclared(variant)
    /\ logs(variant, env, sb)
    /\ IF variant \in LazyVariants
       THEN /\ sb' = getSB(env, sb).handle
            /\ created' = created + getSB(env, sb).made
       ELSE UNCHANGED <<sb, created>>
    /\ peer' = [peer EXCEPT
                  !.loc = locals(variant, peer.body),
                  !.inserts = Append(peer.inserts,
                                     record(variant, peer.body,
                                            locals(variant, peer.body))),
                  !.pc = "insert"]
    /\ UNCHANGED <<page, form, variant, env, first>>

PeerPostReturns ==
    /\ peer.pc = "start" /\ peer.payload_ok /\ sizeDeclared(variant)
    /\ ~logs(variant, env, sb)
    /\ peer' = [peer EXCEPT !.loc = locals(variant, peer.body),
                            !.resp = Success(locals(variant, peer.body)),
                            !.pc = "done"]
    /\ UNCHANGED <<page, form, variant, env, sb, created, first>>

PeerInsertResolves ==
    /\ peer.pc = "insert"
    /\ peer' = [peer EXCEPT !.outcome = "resolved", !.resp = Success(peer.loc),
                            !.pc = "done"]
    /\ UNCHANGED <<page, form, variant, env, sb, created, first>>

PeerInsertRejects ==
    /\ peer.pc = "insert"
    /\ peer' = [peer EXCEPT !.outcome = "rejected",
                            !.resp = Failure("insert failed"), !.pc = "done"]
    /\ UNCHANGED <<page, form, variant, env, sb, created, first>>

NextTwo ==
    \/ JsonRejects
    \/ PostThrows
    \/ PostInserts
    \/ PostReturns
    \/ InsertResolves
    \/ InsertRejects
    \/ PeerJsonRejects
    \/ PeerPostThrows
    \/ PeerPostInserts
    \/ PeerPostReturns
    \/ PeerInsertResolves
    \/ PeerInsertRejects

SpecTwo == InitTwo /\ [][NextTwo]_vars

(* ----------------------------- try-on page ----------------------------- *)
server == <<variant, env, payload_ok, body, pc, loc, sb, created, inserts,
            outcome, resp, peer>>

\* no request is being handled
ServerIdle ==
    /\ variant = "P2" /\ env = EnvSet /\ payload_ok = TRUE /\ body = EmptyBody
    /\ pc = "idle" /\ loc = NoLocals /\ sb = "client" /\ created = 1
    /\ inserts = <<>> /\ outcome = "none" /\ resp = NoResp /\ peer = NoPeer

\* the page is rendered, its refs attached, no effect has run yet
InitTryOn ==
    /\ ServerIdle
    /\ form = NoForm
    /\ page = [NoPage EXCEPT !.mounted = TRUE, !.ref = TRUE]

\* the function the effect returns, run for instance i while
\* videoRef.current is attached (refNow) or already null:
\* stopped = true; videoRef.current?.srcObject?.getTracks().forEach(stop);
\* segmenter?.close?.()
cleanup(p, i, refNow) ==
    [p EXCEPT !.fx[i].stopped = TRUE,
              !.fx[i].cleaned = TRUE,
              !.fx[i].segmenter = IF @ = "open" THEN "closed" ELSE @,
              !.stream = IF refNow /\ p.srcObject # 0
                         THEN [@ EXCEPT ![p.srcObject] = "stopped"]
                         ELSE @]

\* the effect body: fresh stopped / segmenter, init() runs up to its first await
effect(p, i) == [p EXCEPT !.started = i, !.fx[i].pc = "getUserMedia"]

\* the effect of the first commit
EffectRuns ==
    /\ page.mounted /\ page.started = 0
    /\ page' = effect(page, 1)
    /\ UNCHANGED <<server, form>>

\* a dependency changed: the running instance is cleaned up and the effect
\* runs again, in one commit; the video element stays attached
DepsChange ==
    /\ page.mounted /\ page.started >= 1 /\ page.started < MaxEffects
    /\ page' = effect(cleanup(page, page.started, TRUE), page.started + 1)
    /\ UNCHANGED <<server, form>>

\* the page goes away: the refs are detached and the cleanup runs; whether
\* the cleanup still sees videoRef.current depends on the React release
\* (passive cleanups run after the refs are detached from React 17 on)
Unmount ==
    /\ page.mounted /\ page.started >= 1
    /\ \E refNow \in BOOLEAN :
          page' = [cleanup(page, page.started, refNow)
                       EXCEPT !.mounted = FALSE, !.ref = FALSE]
    /\ UNCHANGED <<server, form>>

\* const stream = await getUserMedia(...); if (!videoRef.current) return;
\* videoRef.current.srcObject = stream; await videoRef.current.play()
GetUserMediaResolves(i) ==
    /\ page.fx[i].pc = "getUserMedia"
    /\ page' = IF ~page.ref
               THEN [page EXCEPT !.stream[i] = "live", !.fx[i].pc = "returned"]
               ELSE [page EXCEPT !.stream[i] = "live", !.srcObject = i,
                                 !.fx[i].pc = "play"]
    /\ UNCHANGED <<server, form>>

\* await import(...)
PlayResolves(i) ==
    /\ page.fx[i].pc = "play"
    /\ page' = [page EXCEPT !.fx[i].pc = "import"]
    /\ UNCHANGED <<server, form>>

\* await FilesetResolver.forVisionTasks(...)
ImportResolves(i) ==
    /\ page.fx[i].pc = "import"
    /\ page' = [page EXCEPT !.fx[i].pc = "forVisionTasks"]
    /\ UNCHANGED <<server, form>>

\* segmenter = await ImageSegmenter.createFromOptions(...)
ForVisionTasksResolves(i) ==
    /\ page.fx[i].pc = "forVisionTasks"
    /\ page' = [page EXCEPT !.fx[i].pc = "createFromOptions"]
    /\ UNCHANGED <<server, form>>

\* segmenter is set; setReady(true); without a canvas or a video init
\* returns, else requestAnimationFrame(drawFrame)
CreateResolves(i) ==
    /\ page.fx[i].pc = "createFromOptions"
    /\ page' = [page EXCEPT !.fx[i].segmenter = "open",
                            !.fx[i].pc = IF page.ref THEN "raf" ELSE "returned"]
    /\ UNCHANGED <<server, form>>

\* any of the awaits rejects: catch (e) { setError(...) }
InitCatches(i) ==
    /\ page.fx[i].pc \in {"getUserMedia", "play", "import", "forVisionTasks",
                          "createFromOptions"}
    /\ page' = [page EXCEPT !.fx[i].pc = "failed"]
    /\ UNCHANGED <<server, form>>

\* drawFrame on an animation frame: if (stopped) return; else the frame is
\* drawn and the next one requested (a video without dimensions yet only
\* requests the next frame, which changes nothing here)
drawFrame(i) ==
    /\ page.fx[i].pc = "raf"
    /\ IF page.fx[i].stopped
       THEN page' = [page EXCEPT !.fx[i].pc = "returned"]
       ELSE /\ page.fx[i].frames < MaxFrames
            /\ page' = [page EXCEPT !.fx[i].frames = @ + 1,
                                    !.fx[i].late = @ \/ page.fx[i].cleaned]
    /\ UNCHANGED <<server, form>>

NextTryOn ==
    \/ EffectRuns
    \/ DepsChange
    \/ Unmount
    \/ \E i \in Effects : GetUserMediaResolves(i)
    \/ \E i \in Effects : PlayResolves(i)
    \/ \E i \in Effects : ImportResolves(i)
    \/ \E i \in Effects : ForVisionTasksResolves(i)
    \/ \E i \in Effects : CreateResolves(i)
    \/ \E i \in Effects : InitCatches(i)
    \/ \E i \in Effects : drawFrame(i)

SpecTryOn == InitTryOn /\ [][NextTryOn]_vars

(* ------------------------------ SizeFinder ----------------------------- *)
InitForm ==
    /\ ServerIdle
    /\ page = NoPage
    /\ form = NoForm

\* what fetch can resolve with: the handler's responses, a 200 whose JSON
\* has no `ok`, and an error page that is not JSON
HtmlError == [NoResp EXCEPT !.status = 502]
FormResponses ==
    {Success(locals("P2", b)) : b \in BodiesEnv}
    \cup {Failure("size is not defined"), Failure("insert failed"),
          [NoResp EXCEPT !.status = 200], HtmlError}

\* onClick={()=>setUnit(u)}
setUnit(u) ==
    /\ form.unit # u
    /\ form' = [form EXCEPT !.unit = u]
    /\ UNCHANGED <<server, page>>

\* the tummy-control checkbox
setTummy(t) ==
    /\ form.tummy # t
    /\ form' = [form EXCEPT !.tummy = t]
    /\ UNCHANGED <<server, page>>

\* a submit() that starts whether or not one is in flight
submitWhileBusy ==
    /\ form.sent < MaxSubmits
    /\ form' = [form EXCEPT !.busy = TRUE, !.err = Null, !.res = NoRes,
                            !.sent = @ + 1,
                            !.flight[form.sent + 1] =
                                [pc |-> "fetch", r |-> NoResp,
                                 unit |-> form.unit, tummy |-> form.tummy]]
    /\ UNCHANGED <<server, page>>

\* a click on the button (disabled={busy}): submit() down to await fetch(...)
submit ==
    /\ ~form.busy
    /\ form.sent < MaxSubmits
    /\ form' = [form EXCEPT !.busy = TRUE, !.err = Null, !.res = NoRes,
                            !.sent = @ + 1,
                            !.flight[form.sent + 1] =
                                [pc |-> "fetch", r |-> NoResp,
                                 unit |-> form.unit, tummy |-> form.tummy]]
    /\ UNCHANGED <<server, page>>

\* catch(e){ setErr(e?.message || "Something went wrong") } finally{ setBusy(false) }
caught(f, i, message) ==
    [f EXCEPT !.err = IF message = "" THEN "Something went wrong" ELSE message,
              !.busy = FALSE,
              !.flight[i].pc = "done"]

\* const r = await fetch(...); then await r.json() is pending
FetchResolves(i) ==
    /\ form.flight[i].pc = "fetch"
    /\ \E r \in FormResponses :
          form' = [form EXCEPT !.flight[i].pc = "json", !.flight[i].r = r]
    /\ UNCHANGED <<server, page>>

\* fetch rejects (network)
FetchRejects(i) ==
    /\ form.flight[i].pc = "fetch"
    /\ \E message \in {"Failed to fetch", ""} : form' = caught(form, i, message)
    /\ UNCHANGED <<server, page>>

\* const data = await r.json(); if(!r.ok || !data?.ok) throw new
\* Error(data?.error || "Failed"); setRes({...}); finally setBusy(false)
ResponseJsonResolves(i) ==
    LET data == form.flight[i].r
    IN  /\ form.flight[i].pc = "json" /\ data # HtmlError
        /\ form' = IF data.status # 200 \/ ~data.ok
                   THEN caught(form, i, IF data.error = Absent \/ data.error = ""
                                        THEN "Failed" ELSE data.error)
                   ELSE [form EXCEPT !.res = [k |-> "object", size |-> data.size,
                                              coverage |-> data.coverage,
                                              fitNotes |-> data.fitNotes],
                                     !.busy = FALSE,
                                     !.flight[i].pc = "done"]
        /\ UNCHANGED <<server, page>>

\* r.json() rejects: the body is not JSON
ResponseJsonRejects(i) ==
    /\ form.flight[i].pc = "json" /\ form.flight[i].r = HtmlError
    /\ form' = caught(form, i, "Unexpected token < in JSON at position 0")
    /\ UNCHANGED <<server, page>>

NextForm ==
    \/ \E u \in {"metric", "imperial"} : setUnit(u)
    \/ \E t \in BOOLEAN : setTummy(t)
    \/ submit
    \/ \E i \in Flights : FetchResolves(i)
    \/ \E i \in Flights : FetchRejects(i)
    \/ \E i \in Flights : ResponseJsonResolves(i)
    \/ \E i \in Flights : ResponseJsonRejects(i)

SpecForm == InitForm /\ [][NextForm]_vars

(* -------------------------------- claims ------------------------------- *)
\* the body parsed and POST ran its synchronous part
Computed == payload_ok /\ pc # "start"

\* C1: the returned size is the chart label whenever the chart lookup gives
\* one, the height/weight label only when the chart gives none, and the
\* default M only when neither gives one.
C1_ChartFirst ==
    resp.ok =>
        /\ loc.byChart # Null => resp.size = loc.byChart
        /\ (loc.byChart = Null /\ loc.byHW # Null) => resp.size = loc.byHW
        /\ (loc.byChart = Null /\ loc.byHW = Null) => resp.size = "M"

\* a success whose chart label and BMI label both exist and differ
C1_Witness ==
    /\ resp.ok
    /\ loc.byChart # Null /\ loc.byHW # Null /\ loc.byChart # loc.byHW
    /\ resp.size = loc.byChart

\* C2: the label is that of the row with the highest score (supplied values
\* inside the row's inclusive range), then the lowest distance, then the
\* earliest position in the table.
C2Axes == {"bust", "waist", "hip"}
C2Arg(a) == IF a = "bust" THEN loc.bust ELSE IF a = "waist" THEN loc.waist ELSE loc.hip
C2Range(i, a) ==
    LET s == SIZE_CHART(variant)[i]
    IN  IF a = "bust" THEN s.bust ELSE IF a = "waist" THEN s.waist ELSE s.hip
C2Score(i) ==
    Cardinality({a \in C2Axes :
        /\ C2Arg(a).k = "num"
        /\ C2Range(i, a)[1] <= C2Arg(a).v /\ C2Arg(a).v <= C2Range(i, a)[2]})
\* ten times the distance of one axis
C2Axis(i, a) ==
    LET x == C2Arg(a)
        lo == C2Range(i, a)[1]
        hi == C2Range(i, a)[2]
    IN  CASE x.k = "undef" -> 0
          [] x.k = "num" /\ x.v < lo -> 10 * (lo - x.v)
          [] x.k = "num" /\ x.v > hi -> 10 * (x.v - hi)
          [] OTHER -> IF 2 * x.v >= lo + hi THEN (2 * x.v - (lo + hi)) \div 2
                      ELSE ((lo + hi) - 2 * x.v) \div 2
C2Dist(i) == C2Axis(i, "bust") + C2Axis(i, "waist") + C2Axis(i, "hip")
C2Beats(i, j) ==
    \/ C2Score(i) > C2Score(j)
    \/ C2Score(i) = C2Score(j) /\ C2Dist(i) < C2Dist(j)
    \/ C2Score(i) = C2Score(j) /\ C2Dist(i) = C2Dist(j) /\ i <= j
C2Numeric == \A a \in C2Axes : C2Arg(a).k \in {"undef", "num"}
C2Some == \E a \in C2Axes : C2Arg(a).k = "num"

C2_BestRow ==
    (Computed /\ C2Numeric /\ C2Some) =>
        \E i \in 1..Len(SIZE_CHART(variant)) :
            /\ loc.byChart = SIZE_CHART(variant)[i].label
            /\ \A j \in 1..Len(SIZE_CHART(variant)) : C2Beats(i, j)

\* bust 34 in alone: S and M tie on score (1) and on distance (0.1), S wins
C2_Witness ==
    /\ Computed /\ variant = "P0"
    /\ loc.bust = Num(34 * LS) /\ loc.waist = Undef /\ loc.hip = Undef
    /\ C2Score(1) = C2Score(2) /\ C2Dist(1) = C2Dist(2)
    /\ loc.byChart = "S"

\* C3: an explicit style preference burkini / swimdress / rashguard decides
\* the coverage, whatever the activity, the modesty and the tummy flag.
C3_PreferenceWins ==
    Computed =>
        /\ body.style_preference = "burkini" => loc.coverage = "burkini"
        /\ body.style_preference = "swimdress" => loc.coverage = "knee length"
        /\ body.style_preference = "rashguard" => loc.coverage = "one-piece + rash guard"
        /\ resp.ok => resp.coverage = loc.coverage

C3_Witness ==
    /\ resp.ok /\ body.style_preference = "swimdress"
    /\ body.modesty = "high" /\ body.activity = "swim_class"
    /\ resp.coverage = "knee length"

\* C4: without such a preference: burkini when modesty is high; otherwise,
\* for swim_class / aqua_fitness, knee length when modesty is medium and
\* one-piece for any other modesty; otherwise knee length.
C4_Cascade ==
    (Computed /\ body.style_preference \notin {"burkini", "swimdress", "rashguard"}) =>
        loc.coverage =
            CASE body.modesty = "high" -> "burkini"
              [] body.modesty # "high" /\ body.activity \in {"swim_class", "aqua_fitness"}
                   /\ body.modesty = "medium" -> "knee length"
              [] body.modesty # "high" /\ body.activity \in {"swim_class", "aqua_fitness"}
                   /\ body.modesty # "medium" -> "one-piece"
              [] OTHER -> "knee length"

C4_Witness ==
    /\ resp.ok /\ body.style_preference = "onepiece"
    /\ body.activity = "aqua_fitness" /\ body.modesty = "medium"
    /\ body.tummy_control = "true"
    /\ resp.coverage = "knee length"

\* C5: when the analytics write fails the handler still returns the success
\* response it returns when the write succeeds.
C5_WriteFailureSwallowed ==
    (pc = "done" /\ outcome = "rejected") => resp = Success(loc)

\* C6: every response is a success with size, coverage and fitNotes, or a
\* failure with an error and status 400 and none of the three.
C6_AllOrNothing ==
    pc = "done" =>
        \/ /\ resp.ok /\ resp.status = 200
           /\ resp.size \in Labels /\ resp.coverage \in Coverages
           /\ resp.fitNotes # Absent /\ resp.error = Absent
        \/ /\ ~resp.ok /\ resp.status = 400
           /\ resp.error # Absent
           /\ resp.size = Absent /\ resp.coverage = Absent /\ resp.fitNotes = Absent

\* a failure raised after the recommendation was computed
C6_Witness ==
    /\ pc = "done" /\ outcome = "rejected" /\ loc.size \in Labels
    /\ resp.status = 400 /\ resp.size = Absent

\* C7: a request with no bust, waist, hip, bra, height or weight gets a
\* success response whose size is M.
NoMeasurements ==
    /\ \A x \in {body.bust_in, body.waist_in, body.hip_in, body.height_cm,
                 body.weight_kg, body.bust, body.waist, body.hip,
                 body.height, body.weight} : x = Undef
    /\ body.bra.k = "undef"

C7_DefaultM ==
    (pc = "done" /\ payload_ok /\ NoMeasurements) => (resp.ok /\ resp.size = "M")

\* C8: sizeByHW gives no decision unless height and weight are both there
\* (zero is absent); otherwise S below BMI 21, M below 24, L below 27, XL
\* below 31, XXL from 31 on, with BMI = kg / (cm / 100)^2.
C8Present == loc.height.k = "num" /\ loc.height.v # 0
             /\ loc.weight.k = "num" /\ loc.weight.v # 0
\* kg * 10^4 < t * cm^2, with cm in tenths and kg x 10^7
C8Below(t) ==
    LET cm10 == (loc.height.v * 10) \div LS
    IN  loc.weight.v < t * cm10 * cm10 * 10

C8_Thresholds ==
    Computed =>
        /\ ~C8Present => loc.byHW = Null
        /\ C8Present =>
             /\ loc.byHW = "S" <=> C8Below(21)
             /\ loc.byHW = "M" <=> (~C8Below(21) /\ C8Below(24))
             /\ loc.byHW = "L" <=> (~C8Below(24) /\ C8Below(27))
             /\ loc.byHW = "XL" <=> (~C8Below(27) /\ C8Below(31))
             /\ loc.byHW = "XXL" <=> ~C8Below(31)

\* height 165 cm, weight 60 kg: M
C8_Witness ==
    /\ Computed /\ loc.height = Num(165 * LS) /\ loc.weight = Num(60 * WS)
    /\ loc.byHW = "M"

\* C9: the chart gives no decision exactly when bust, waist and hip are all
\* absent; one present value, however far outside the chart, gives a label.
C9_NullIffAllAbsent ==
    Computed =>
        /\ loc.byChart = Null <=> (loc.bust = Undef /\ loc.waist = Undef /\ loc.hip = Undef)
        /\ loc.byChart # Null => loc.byChart \in Labels

\* a hip of 200, outside every row of either chart
C9_Witness ==
    /\ Computed /\ loc.bust = Undef /\ loc.waist = Undef
    /\ loc.hip.k = "num" /\ loc.hip.v >= 200 * LS
    /\ C2Score(5) = 0 /\ loc.byChart = "XXL"

\* C10: a bra string matching the pattern with no bust measurement makes the
\* chart classify (band + cup increment) * 2.54.
C10Cup(cup) ==
    CASE cup = "A" -> 25 [] cup = "B" -> 50 [] cup = "C" -> 75 [] cup = "D" -> 100
      [] cup = "DD" -> 125 [] cup = "E" -> 125 [] cup = "F" -> 150 [] OTHER -> 75
\* (band + increment) * 2.54, as a length
C10Estimate ==
    LET br == parseBra(body.bra)
    IN  Num(((br.band.v * 10 + C10Cup(br.cup)) * (LS \div 10) * 127) \div 50)

C10_BraEstimate ==
    (Computed /\ parseBra(body.bra).cup # Null
     /\ body.bust = Undef /\ body.bust_in = Undef) =>
        /\ loc.bust = C10Estimate
        /\ resp.ok => resp.size = pickFromChart(variant, C10Estimate, loc.waist, loc.hip)

\* C11: in the copies that read the explicit fields, an explicit field that is
\* there is the normalized value verbatim, whatever the legacy field and the
\* unit; the legacy field is converted and used only without it.
C11Axes == {"bust", "waist", "hip", "height", "weight"}
C11Explicit(a) ==
    CASE a = "bust" -> body.bust_in [] a = "waist" -> body.waist_in
      [] a = "hip" -> body.hip_in [] a = "height" -> body.height_cm
      [] OTHER -> body.weight_kg
C11Imperial == body.unit = "imperial"
\* the explicit value, at the scale of the normalized one
C11Verbatim(a) ==
    Num(C11Explicit(a).v * (IF a = "weight" THEN 1000000 ELSE 6350))
\* the legacy value v (tenths) converted: inches <- cm by / 2.54, whole cm,
\* kg <- lb by * 0.453592
C11Converted(a, v) ==
    CASE a = "height" ->
           Num((IF C11Imperial THEN (v * 254 + 500) \div 1000 ELSE (v + 5) \div 10) * 63500)
      [] a = "weight" -> Num(IF C11Imperial THEN v * 453592 ELSE v * 1000000)
      [] OTHER -> Num(IF C11Imperial THEN v * 6350 ELSE v * 2500)
C11Both(a) == C11Explicit(a) # Undef /\ body[a] # Undef

C11_ExplicitWins ==
    (Computed /\ variant \in InchVariants) =>
        \A a \in C11Axes :
            /\ C11Explicit(a) # Undef => loc[a] = C11Verbatim(a)
            /\ (C11Explicit(a) = Undef /\ body[a] # Undef)
                   => loc[a] = C11Converted(a, body[a].v)
            /\ (C11Explicit(a) = Undef /\ body[a] = Undef) => loc[a] = Undef

\* both fields there for the bust, disagreeing, and the explicit inches used
C11_Witness ==
    /\ Computed /\ variant = "P0" /\ resp.ok
    /\ body.bust_in = Num(330) /\ body.bust = Num(1050) /\ body.unit = "imperial"
    /\ loc.bust = Num(33 * LS) /\ resp.size = "S"

\* C12: a request that gives 0 for a measurement field gets the size, the
\* coverage and the fitNotes of the same request without that field.
C12Fields ==
    {"bust_in", "waist_in", "hip_in", "height_cm", "weight_kg",
     "bust", "waist", "hip", "height", "weight"}
C12Without(f) == Success(locals(variant, [body EXCEPT ![f] = Undef]))

C12_ZeroIsAbsent ==
    (Computed /\ pc = "done" /\ resp.ok) =>
        \A f \in C12Fields : body[f] = Num(0) => resp = C12Without(f)

\* C13: a measurement field that holds a non-number counts as absent: the
\* request succeeds with the size of the same request without that field;
\* and a normalized value is there only when an explicit field, a legacy
\* field or, for the bust, a matching bra string supplies it.
C13Supplied(a) ==
    \/ C11Explicit(a) # Undef
    \/ body[a] # Undef
    \/ (a = "bust" /\ parseBra(body.bra).cup # Null)

C13_NonNumberIsAbsent ==
    (Computed /\ pc = "done" /\ sizeDeclared(variant) /\ outcome # "rejected") =>
        /\ resp.ok
        /\ \A f \in C12Fields : body[f].k = "str" => resp.size = C12Without(f).size
        /\ \A a \in C11Axes : loc[a] # Undef => C13Supplied(a)

\* C14: an insert is issued only when both environment variables are set;
\* when one is unset the handler issues none and returns the recommendation.
C14_WriteOnlyWhenConfigured ==
    /\ Len(inserts) > 0 => configured(env)
    /\ (Computed /\ pc = "done" /\ sizeDeclared(variant) /\ ~configured(env))
          => (Len(inserts) = 0 /\ resp = Success(loc))

\* C15: one request issues at most one insert, and once an insert has failed
\* no further insert is issued for it.
C15_NoRetry ==
    /\ [](Len(inserts) <= 1)
    /\ [][(outcome = "rejected" \/ outcome' = "rejected") => inserts' = inserts]_vars

\* the one insert failed and the request is over
C15_Witness ==
    pc = "done" /\ outcome = "rejected" /\ Len(inserts) = 1 /\ ~resp.ok

\* C16: once the body has parsed and the recommendation is computed, the
\* handler eventually returns that recommendation, whatever the analytics
\* write does.
C16_ResponseNotGated ==
    (Computed /\ sizeDeclared(variant)) ~> (pc = "done" /\ resp = Success(loc))

\* C17: two requests with identical bodies receive identical responses,
\* whatever was handled before or between them and whether or not the lazy
\* client exists already.
C17_SameBodySameResponse ==
    (pc = "done" /\ peer.pc = "done"
     /\ peer.payload_ok = payload_ok /\ peer.body = body) => peer.resp = resp

\* C18: in every interleaving of two requests at their awaits, each request's
\* response and analytics record are those it gets when handled alone by a
\* freshly loaded module, and the shared client is created at most once.
C18Fresh == IF variant \in LazyVariants THEN Null ELSE "client"
\* a request handled alone: its record, and its response given how its own
\* write ended
C18Record(ok, b) ==
    IF ok /\ sizeDeclared(variant) /\ logs(variant, env, C18Fresh)
    THEN <<record(variant, b, locals(variant, b))>>
    ELSE <<>>
C18Response(ok, b, out) ==
    IF ~ok THEN Failure("Unexpected token in JSON")
    ELSE IF ~sizeDeclared(variant) THEN Failure("size is not defined")
    ELSE IF out = "rejected" THEN Failure("insert failed")
    ELSE Success(locals(variant, b))
C18AsAlone(r) ==
    /\ r.pc = "start" => r.inserts = <<>>
    /\ r.pc \in {"insert", "done"} => r.inserts = C18Record(r.payload_ok, r.body)
    /\ r.pc = "insert" => Len(r.inserts) = 1
    /\ r.pc = "done" => r.resp = C18Response(r.payload_ok, r.body, r.outcome)

C18_Isolation ==
    /\ C18AsAlone([payload_ok |-> payload_ok, body |-> body, pc |-> pc,
                   inserts |-> inserts, outcome |-> outcome, resp |-> resp])
    /\ C18AsAlone(peer)
    /\ created <= 1

\* both requests suspended at their writes at once, the lazy client shared
C18_Witness ==
    /\ variant = "P0" /\ pc = "insert" /\ peer.pc = "insert"
    /\ body # peer.body /\ inserts # peer.inserts
    /\ sb = "client" /\ created = 1

\* C19: the hint clause of fitNotes holds, in this order and joined by " & "
\* after " with ", exactly: tummy-control panels (tummy control asked for),
\* secure shoulder coverage (activity swim_class), full coverage (modesty
\* high or coverage burkini); with none of them there is no clause.
C19Tummy == body.tummy_control = "true"
C19Swim == body.activity = "swim_class"
C19Full == body.modesty = "high" \/ resp.coverage = "burkini"
C19Clause ==
    CASE C19Tummy /\ C19Swim /\ C19Full ->
           " with tummy-control panels & secure shoulder coverage & full coverage"
      [] C19Tummy /\ C19Swim /\ ~C19Full ->
           " with tummy-control panels & secure shoulder coverage"
      [] C19Tummy /\ ~C19Swim /\ C19Full -> " with tummy-control panels & full coverage"
      [] C19Tummy /\ ~C19Swim /\ ~C19Full -> " with tummy-control panels"
      [] ~C19Tummy /\ C19Swim /\ C19Full -> " with secure shoulder coverage & full coverage"
      [] ~C19Tummy /\ C19Swim /\ ~C19Full -> " with secure shoulder coverage"
      [] ~C19Tummy /\ ~C19Swim /\ C19Full -> " with full coverage"
      [] OTHER -> ""

C19_HintClause ==
    resp.ok =>
        resp.fitNotes = "We suggest **" \o resp.size \o "** in a **" \o resp.coverage
                        \o "** style" \o C19Clause \o fitTail(variant)

\* all three hints, the third owed to the burkini and not to the modesty
C19_Witness ==
    /\ resp.ok /\ variant = "P2"
    /\ C19Tummy /\ C19Swim /\ body.modesty = "low" /\ body.style_preference = "burkini"
    /\ resp.fitNotes = "We suggest **M** in a **burkini** style with tummy-control panels & secure shoulder coverage & full coverage. For close fit choose your measured size; for relaxed fit, consider one size up."

\* C20: in every copy fitNotes is exactly "We suggest **{size}** in a
\* **{coverage}** style{clause}. For close fit choose your measured size; for
\* relaxed fit, consider one size up." with the size and the coverage of the
\* same response.
C20_ExactText ==
    resp.ok =>
        resp.fitNotes = "We suggest **" \o resp.size \o "** in a **" \o resp.coverage
                        \o "** style" \o C19Clause
                        \o ". For close fit choose your measured size; for relaxed fit, consider one size up."

\* C21: of two rows with the same score, pickFromChart returns the one whose
\* range midpoints are closer to the supplied measurements.
\* twice the summed distance of the supplied values to row i's midpoints
C21Mid(i) ==
    LET m(a) == IF C2Arg(a).k # "num" THEN 0
                ELSE LET t == 2 * C2Arg(a).v - (C2Range(i, a)[1] + C2Range(i, a)[2])
                     IN  IF t < 0 THEN 0 - t ELSE t
    IN  m("bust") + m("waist") + m("hip")
C21Rows == 1..Len(SIZE_CHART(variant))
C21Returned(i) == loc.byChart = SIZE_CHART(variant)[i].label

C22Fields == {"activity", "modesty", "style_preference"}
C22Recognised(f) ==
    CASE f = "activity" -> {"beach", "swim_class", "aqua_fitness"}
      [] f = "modesty" -> {"low", "medium", "high"}
      [] f = "style_preference" -> {"swimdress", "burkini", "rashguard"}
C22Unknown(f) == body[f] # Absent /\ body[f] \notin C22Recognised(f)
C22Without(f) == locals(variant, [body EXCEPT ![f] = Absent])

C22_UnknownIsAbsent ==
    Computed =>
        \A f \in C22Fields :
            C22Unknown(f) =>
                /\ loc.coverage = C22Without(f).coverage
                /\ loc = C22Without(f)
                /\ pc = "done" =>
                      \/ resp = Success(C22Without(f))
                      \/ ~resp.ok /\ (outcome = "rejected" \/ ~sizeDeclared(variant))

C22_Witness ==
    /\ pc = "done" /\ resp.ok
    /\ body.style_preference = "onepiece" /\ body.activity = "surfing"
    /\ body.modesty = "extreme"
    /\ resp.coverage = "knee length"

\* C23: a height (cm) and a weight (kg) that come from the legacy fields are
\* whole numbers, the nearest to the converted value, under the metric and
\* under the imperial unit tag, while bust, waist and hip are the converted
\* value with its fraction.
C23Legacy(a) ==
    /\ body[a].k = "num" /\ body[a].v # 0
    /\ variant \in InchVariants => C11Explicit(a) = Undef
\* the legacy value converted and not rounded, at the scale of the normalized one
C23Exact(a) ==
    CASE a = "height" -> body[a].v * (IF C11Imperial THEN 16129 ELSE 6350)
      [] a = "weight" -> body[a].v * (IF C11Imperial THEN 453592 ELSE 1000000)
      [] OTHER -> IF variant \in InchVariants
                  THEN body[a].v * (IF C11Imperial THEN 6350 ELSE 2500)
                  ELSE body[a].v * (IF C11Imperial THEN 16129 ELSE 6350)
C23Unit(a) == IF a = "weight" THEN WS ELSE LS
C23Nearest(a) ==
    /\ loc[a].k = "num"
    /\ loc[a].v % C23Unit(a) = 0
    /\ 2 * Abs(loc[a].v - C23Exact(a)) <= C23Unit(a)

C23_LegacyRounded ==
    Computed =>
        /\ \A a \in {"height", "weight"} : C23Legacy(a) => C23Nearest(a)
        /\ \A a \in {"bust", "waist", "hip"} :
              C23Legacy(a) => loc[a] = Num(C23Exact(a))

\* C24: parseBra yields a band and a cup together or neither: both exactly
\* when the string, with all whitespace removed and in upper case, is two
\* digits followed by one or more letters, the band being the two digits as a
\* number and the cup the letters; any other string, or none, yields neither,
\* and the bust is then what it is without the bra.
C24Lower == <<"a", "b", "c", "d", "e", "f", "g">>
C24Upper == <<"A", "B", "C", "D", "E", "F", "G">>
C24Digit == <<"0", "1", "2", "3", "4", "5", "6", "7", "8", "9">>
C24Index(c, seq) == CHOOSE i \in 1..Len(seq) : seq[i] = c
C24Up(c) ==
    IF \E i \in 1..Len(C24Lower) : C24Lower[i] = c
    THEN C24Upper[C24Index(c, C24Lower)] ELSE c
RECURSIVE C24Squeeze(_)
C24Squeeze(s) ==
    IF s = <<>> THEN <<>>
    ELSE IF Head(s) = " " \/ Head(s) = "\t" THEN C24Squeeze(Tail(s))
    ELSE <<C24Up(Head(s))>> \o C24Squeeze(Tail(s))
C24Text == IF body.bra.k = "str" THEN C24Squeeze(body.bra.s) ELSE <<>>
C24IsDigit(c) == \E i \in 1..Len(C24Digit) : C24Digit[i] = c
C24IsLetter(c) == \E i \in 1..Len(C24Upper) : C24Upper[i] = c
C24Shape ==
    /\ Len(C24Text) > 2
    /\ C24IsDigit(C24Text[1]) /\ C24IsDigit(C24Text[2])
    /\ \A i \in 3..Len(C24Text) : C24IsLetter(C24Text[i])
C24Band ==
    10 * (C24Index(C24Text[1], C24Digit) - 1) + (C24Index(C24Text[2], C24Digit) - 1)
RECURSIVE C24Cup(_)
C24Cup(i) == IF i > Len(C24Text) THEN "" ELSE C24Text[i] \o C24Cup(i + 1)
C24NoBra == [body EXCEPT !.bra = EmptyBody.bra]

C24_BandAndCup ==
    (Computed /\ variant \notin InchVariants) =>
        /\ (loc.bra_band = Undef) <=> (loc.bra_cup = Null)
        /\ C24Shape => (loc.bra_band = Num(C24Band) /\ loc.bra_cup = C24Cup(3))
        /\ ~C24Shape =>
              /\ loc.bra_band = Undef /\ loc.bra_cup = Null
              /\ loc.bust = locals(variant, C24NoBra).bust

C24_Witness ==
    /\ Computed /\ variant \notin InchVariants
    /\ body.bra = StrOf(<<"3", "0", "d", "d">>)
    /\ loc.bra_band = Num(30) /\ loc.bra_cup = "DD"

\* C25: a request handled with the analytics collaborator configured has
\* exactly one record written before its response is returned; the record's
\* recommended_size, recommended_style and fit_notes are the size, coverage
\* and fitNotes of the response, and its unit_system is the unit tag, metric
\* or imperial, under which the request was read.
C25_RecordMatchesResponse ==
    (payload_ok /\ pc = "done" /\ configured(env)) =>
        /\ Len(inserts) = 1
        /\ inserts[1].recommended_size = resp.size
        /\ inserts[1].recommended_style = resp.coverage
        /\ inserts[1].fit_notes = resp.fitNotes
        /\ inserts[1].unit_system \in {"metric", "imperial"}
        /\ inserts[1].unit_system = loc.unit

\* C26: in the first handler of src/app/api/size/recommend/route.ts every
\* request whose JSON body parses gets a success response with size,
\* coverage and fitNotes, the size being the chart label, else the BMI label,
\* else M.
C26_FirstHandlerSucceeds ==
    (variant = "API1" /\ payload_ok /\ pc = "done") =>
        /\ resp.ok /\ resp.status = 200
        /\ resp.size = (IF loc.byChart # Null THEN loc.byChart
                        ELSE IF loc.byHW # Null THEN loc.byHW ELSE "M")
        /\ resp.coverage = loc.coverage
        /\ resp.fitNotes # Absent

\* C27: over any sequence of requests getSB creates the analytics client at
\* most once: a handle that is set is never replaced, a later call with the
\* credentials set gets that client (the request goes on to write), and
\* with a credential unset getSB gives null and creates nothing.
C27Lazy == variant \in LazyVariants
C27Called ==
    \/ pc = "start" /\ pc' # "start" /\ payload_ok /\ sizeDeclared(variant)
    \/ peer.pc = "start" /\ peer'.pc # "start" /\ peer.payload_ok
         /\ sizeDeclared(variant)
C27Wrote == Len(inserts') + Len(peer'.inserts) = Len(inserts) + Len(peer.inserts) + 1

C27_ClientCreatedOnce ==
    /\ [](C27Lazy => (created <= 1 /\ (created = 1 <=> sb # Null)))
    /\ [][C27Lazy =>
            /\ sb # Null => (sb' = sb /\ created' = created)
            /\ (C27Called /\ configured(env)) => (sb' # Null /\ C27Wrote)
            /\ (C27Called /\ ~configured(env)) =>
                  (sb' = sb /\ created' = created /\ ~C27Wrote)]_vars

\* two requests went through getSB and one client was made
C27_Witness ==
    /\ C27Lazy /\ configured(env) /\ created = 1 /\ sb # Null
    /\ Len(inserts) = 1 /\ Len(peer.inserts) = 1
    /\ pc = "done" /\ peer.pc = "done"

\* C28: pickFromChart is monotone in each axis: with the other two axes held
\* fixed, each present or absent, a larger bust never gives a label earlier
\* in S < M < L < XL < XXL, and likewise for waist and for hip.
\* how far a value is raised, in half units of the chart
C28Reach == 30
C28Raised(a, k) ==
    LET up(x) == IF x = a THEN Num(C2Arg(x).v + k * (LS \div 2)) ELSE C2Arg(x)
    IN  pickFromChart(variant, up("bust"), up("waist"), up("hip"))
C28Rank(label) ==
    CHOOSE i \in 1..Len(SIZE_CHART(variant)) : SIZE_CHART(variant)[i].label = label
C28NotEarlier(a) ==
    \A k \in 1..C28Reach :
        C28Rank(C28Raised(a, k)) >= C28Rank(loc.byChart)
C28Present(a) == C2Arg(a).k = "num" /\ C2Arg(a).v > 0
C28Alone(a) == \A x \in C2Axes \ {a} : C2Arg(x) = Undef

C28_Monotone ==
    (Computed /\ C2Numeric) =>
        \A a \in C2Axes : C28Present(a) => C28NotEarlier(a)

\* C28 as amended: with the other two axes absent, a larger bust never gives
\* a label earlier in S < M < L < XL < XXL, and likewise for waist and for
\* hip.
C28_MonotoneAlone ==
    (Computed /\ C2Numeric) =>
        \A a \in C2Axes : (C28Present(a) /\ C28Alone(a)) => C28NotEarlier(a)

\* a hip alone that gives M, and XL when raised by 15 units
C28_Witness ==
    /\ Computed /\ C28Present("hip") /\ C28Alone("hip")
    /\ loc.byChart = "M" /\ C28Raised("hip", C28Reach) = "XL"

\* C29: once the cleanup of an effect instance has run, every camera stream
\* that instance's init acquired is stopped and the instance draws no further
\* frame, also when the cleanup ran while getUserMedia, play or the segmenter
\* load was pending.
C29_CleanupReleases ==
    \A i \in Effects :
        page.fx[i].cleaned => (page.stream[i] # "live" /\ ~page.fx[i].late)

\* C30: in the SizeFinder form, while a submit is in flight busy is true and
\* the result and the error are both cleared; once a submit has settled
\* (success, failed response or thrown error) busy is false and exactly one
\* of result and error is set; a submit cannot start while busy is true.
C30InFlight == \E i \in Flights : form.flight[i].pc \in {"fetch", "json"}
C30Settled == form.sent > 0 /\ ~C30InFlight

C30_BusyBracketsSubmit ==
    /\ [](C30InFlight => (form.busy /\ form.res = NoRes /\ form.err = Null))
    /\ [](C30Settled => (~form.busy /\ ((form.res = NoRes) # (form.err = Null))))
    /\ [][form'.sent # form.sent => ~form.busy]_vars

\* a failed submit followed by one that succeeded
C30_Witness ==
    /\ form.sent = 2 /\ C30Settled
    /\ form.flight[1].r = Failure("size is not defined")
    /\ form.flight[2].r.ok
    /\ form.res # NoRes /\ form.err = Null /\ ~form.busy

=============================================================================
